---------------------------- MODULE Spec2Model ----------------------------
(***************************************************************************)
(* A model of the Splide arrows component                                  *)
(* (splide/src/js/components/arrows/index.js) and of the DOM helper        *)
(* functions it is built on (utils/dom.js).                                *)
(*                                                                         *)
(* Encodings.                                                              *)
(*  - An element is a string naming it; NULL stands for null/undefined.    *)
(*  - A JavaScript string is the sequence of its space-separated words:    *)
(*    "a b" is <<"a", "b">>, "a" is <<"a">>, and '' is << >>.              *)
(*  - Any other JavaScript value is a record tagged with its type.         *)
(*  - The DOM is one record: kids (children, in document order), attrs     *)
(*    (the attributes of each element, the class attribute holding the     *)
(*    class list), style (inline style) and tag ("" = not yet created).    *)
(*  - A helper that may throw yields [dom, threw, ret]; threw is "" when   *)
(*    the call completed and the name of the exception otherwise.          *)
(***************************************************************************)
EXTENDS Integers, Sequences, FiniteSets, TLC

VARIABLES
    dom,        \* the document
    prev,       \* arrows/index.js: let prev
    next,       \* arrows/index.js: let next
    created,    \* arrows/index.js: let created (FALSE = undefined)
    thisArrows, \* Arrows.arrows
    listeners,  \* handlers the component registered through Splide.on
    phase,      \* lifecycle of the host: "created", "mounted", "destroyed"
    fab,        \* number of wrappers fabricated so far
    calls,      \* number of helper calls made so far (helper specification)
    last        \* the last operation: its inputs, its result, what it emitted

vars == <<dom, prev, next, created, thisArrows, listeners, phase, fab, calls, last>>

----------------------------------------------------------------------------
(* Bounds of the model. *)

MaxFab == 1        \* fabrications (mounts that build arrows) per behaviour
MaxIndex == 2      \* Controller.prevIndex and nextIndex range over -1..MaxIndex
MaxCalls == 2      \* helper calls per behaviour of the helper specification

----------------------------------------------------------------------------
(* JavaScript values. *)

NULL == "null"

JSUndefined == [t |-> "undefined"]
JSNull == [t |-> "null"]
JSStr(s) == [t |-> "string", s |-> s]
JSNum(n) == [t |-> "number", n |-> n]
JSBool(b) == [t |-> "boolean", b |-> b]
JSArr(a) == [t |-> "array", a |-> a]
JSElm(e) == IF e = NULL THEN JSNull ELSE [t |-> "element", e |-> e]

\* ToBoolean
Truthy(v) ==
    CASE v.t = "string" -> v.s # << >>
      [] v.t = "number" -> v.n # 0
      [] v.t = "boolean" -> v.b
      [] v.t = "array" -> TRUE
      [] v.t = "element" -> TRUE
      [] OTHER -> FALSE

\* ToString, as Element.setAttribute applies it to its value
ToStr(v) ==
    CASE v.t = "string" -> v.s
      [] v.t = "number" -> <<ToString(v.n)>>
      [] v.t = "boolean" -> IF v.b THEN <<"true">> ELSE <<"false">>
      [] v.t = "null" -> <<"null">>
      [] OTHER -> <<"undefined">>

Range(s) == {s[i] : i \in 1..Len(s)}

\* str.split( ' ' )[0]
FirstWord(s) == IF s = << >> THEN << >> ELSE <<Head(s)>>

\* utils.toArray: an array as it is, any other value as a one-element array
toArray(v) == IF v.t = "array" THEN v.a ELSE <<v>>

\* object.each: the keys of an object, in some order, each visited once
RECURSIVE KeySeq(_)
KeySeq(ks) ==
    IF ks = {} THEN << >>
    ELSE LET key == CHOOSE x \in ks : TRUE IN <<key>> \o KeySeq(ks \ {key})

each(obj) == KeySeq(DOMAIN obj)

----------------------------------------------------------------------------
(* The browser's DOM operations the helpers call. *)

Ok(d, r) == [dom |-> d, threw |-> "", ret |-> r]
Throw(d, e) == [dom |-> d, threw |-> e, ret |-> NULL]

Without(s, n) == SelectSeq(s, LAMBDA x : x # n)

IndexOf(s, n) == CHOOSE i \in 1..Len(s) : s[i] = n

parentElement(d, n) ==
    IF \E p \in DOMAIN d.kids : n \in Range(d.kids[p])
    THEN CHOOSE p \in DOMAIN d.kids : n \in Range(d.kids[p])
    ELSE NULL

firstElementChild(d, p) == IF d.kids[p] = << >> THEN NULL ELSE Head(d.kids[p])

\* the node leaves the child list of whatever parent it has
Detach(d, n) ==
    IF parentElement(d, n) = NULL THEN d
    ELSE [d EXCEPT !.kids[parentElement(d, n)] = Without(@, n)]

removeChild(d, p, c) == Detach(d, c)

\* the descendants of n in document order
RECURSIVE Descendants(_, _, _)
Descendants(d, n, depth) ==
    IF depth = 0 THEN << >>
    ELSE LET ks == d.kids[n]
             F[i \in 0..Len(ks)] ==
                 IF i = 0 THEN << >>
                 ELSE F[i - 1] \o <<ks[i]>> \o Descendants(d, ks[i], depth - 1)
         IN  F[Len(ks)]

Contains(d, a, n) ==
    a = n \/ n \in Range(Descendants(d, a, Cardinality(DOMAIN d.kids)))

\* Node.appendChild moves the child when it is attached elsewhere; a null
\* child is a TypeError, a child that contains the parent a
\* HierarchyRequestError
appendChild(d, p, c) ==
    IF c = NULL THEN Throw(d, "TypeError")
    ELSE IF Contains(d, c, p) THEN Throw(d, "HierarchyRequestError")
    ELSE Ok([Detach(d, c) EXCEPT !.kids[p] = Append(@, c)], c)

\* Node.insertBefore with ref a child of p; a null node is a TypeError, a
\* node that contains p a HierarchyRequestError; inserting a node before
\* itself leaves it where it is
insertBefore(d, p, elm, ref) ==
    IF elm = NULL THEN Throw(d, "TypeError")
    ELSE IF Contains(d, elm, p) THEN Throw(d, "HierarchyRequestError")
    ELSE IF elm = ref THEN Ok(d, elm)
    ELSE LET d1 == Detach(d, elm)
             ks == d1.kids[p]
             i  == IndexOf(ks, ref)
         IN  Ok([d1 EXCEPT !.kids[p] =
                    SubSeq(ks, 1, i - 1) \o <<elm>> \o SubSeq(ks, i, Len(ks))], elm)

createElement(d, id, tag) == [d EXCEPT !.tag[id] = tag]

HasAttr(d, n, name) == name \in DOMAIN d.attrs[n]

elmSetAttribute(d, n, name, value) ==
    [d EXCEPT !.attrs[n] = (name :> ToStr(value)) @@ @]

elmGetAttribute(d, n, name) ==
    IF HasAttr(d, n, name) THEN JSStr(d.attrs[n][name]) ELSE JSNull

elmRemoveAttribute(d, n, name) ==
    [d EXCEPT !.attrs[n] = [k \in (DOMAIN @) \ {name} |-> @[k]]]

\* the boolean IDL attribute 'disabled' reflects the content attribute
SetDisabled(d, n, b) ==
    IF b THEN [d EXCEPT !.attrs[n] = ("disabled" :> << >>) @@ @]
    ELSE elmRemoveAttribute(d, n, "disabled")

ClassTokens(d, n) == IF HasAttr(d, n, "class") THEN d.attrs[n]["class"] ELSE << >>

\* DOMTokenList.contains: a token that is no single word is never contained
classListContains(d, n, name) ==
    /\ Len(ToStr(name)) = 1
    /\ ToStr(name)[1] \in Range(ClassTokens(d, n))

\* DOMTokenList.add / remove: '' is a SyntaxError, a token with whitespace an
\* InvalidCharacterError; the argument is converted to a string first
classListChange(d, n, name, rem) ==
    LET tok == ToStr(name) IN
    IF tok = << >> THEN Throw(d, "SyntaxError")
    ELSE IF Len(tok) > 1 THEN Throw(d, "InvalidCharacterError")
    ELSE IF rem
         THEN IF HasAttr(d, n, "class")
              THEN Ok([d EXCEPT !.attrs[n]["class"] = Without(@, tok[1])], NULL)
              ELSE Ok(d, NULL)
         ELSE IF tok[1] \in Range(ClassTokens(d, n)) THEN Ok(d, NULL)
              ELSE Ok([d EXCEPT !.attrs[n] =
                         ("class" :> Append(ClassTokens(d, n), tok[1])) @@ @], NULL)

\* elm.style[ prop ] = str: '' removes the declaration
styleSet(d, n, prop, str) ==
    IF str = << >>
    THEN [d EXCEPT !.style[n] = [k \in (DOMAIN @) \ {prop} |-> @[k]]]
    ELSE [d EXCEPT !.style[n] = (prop :> str) @@ @]

\* Element.querySelector for a class selector ".word"
querySelector(d, n, sel) ==
    LET hits == SelectSeq(Descendants(d, n, Cardinality(DOMAIN d.kids)),
                          LAMBDA x : classListContains(d, x, JSStr(sel)))
    IN  IF hits = << >> THEN NULL ELSE Head(hits)

----------------------------------------------------------------------------
(* utils/dom.js *)

find(d, elm, selector) ==
    IF elm # NULL /\ Truthy(selector)
    THEN Ok(d, querySelector(d, elm, FirstWord(selector.s)))
    ELSE Ok(d, NULL)

hasClass(d, elm, className) == elm # NULL /\ classListContains(d, elm, className)

\* className.split fails on a value that is no string, once a child is visited
child(d, parent, className) ==
    IF parent # NULL
    THEN IF d.kids[parent] = << >> THEN Ok(d, NULL)
         ELSE IF className.t # "string" THEN Throw(d, "TypeError")
         ELSE LET hits == SelectSeq(d.kids[parent],
                              LAMBDA c : hasClass(d, c, JSStr(FirstWord(className.s))))
              IN  Ok(d, IF hits = << >> THEN NULL ELSE Head(hits))
    ELSE Ok(d, NULL)

\* setAttribute, had it skipped the values that are falsy
setAttribute_skipFalsy(d, elm, name, value) ==
    IF elm # NULL /\ Truthy(value) THEN elmSetAttribute(d, elm, name, value) ELSE d

setAttribute(d, elm, name, value) ==
    IF elm # NULL THEN elmSetAttribute(d, elm, name, value) ELSE d

getAttribute(d, elm, name) ==
    IF elm # NULL THEN elmGetAttribute(d, elm, name) ELSE JSNull

RECURSIVE removeAttributeEach(_, _, _)
removeAttributeEach(d, elm, names) ==
    IF names = << >> THEN d
    ELSE removeAttributeEach(elmRemoveAttribute(d, elm, ToStr(Head(names))[1]),
                             elm, Tail(names))

removeAttribute(d, elm, names) ==
    IF elm # NULL THEN removeAttributeEach(d, elm, toArray(names)) ELSE d

RECURSIVE createEach(_, _, _, _)
createEach(d, elm, attrs, keys) ==
    IF keys = << >> THEN d
    ELSE createEach(setAttribute(d, elm, Head(keys), attrs[Head(keys)]),
                    elm, attrs, Tail(keys))

\* id names the element document.createElement returns
create(d, id, tag, attrs) ==
    Ok(createEach(createElement(d, id, tag), id, attrs, each(attrs)), id)

RECURSIVE removeEach(_, _)
removeEach(d, elms) ==
    IF elms = << >> THEN Ok(d, NULL)
    ELSE LET elm == Head(elms) IN
         IF ~Truthy(elm) THEN removeEach(d, Tail(elms))
         ELSE IF parentElement(d, elm.e) = NULL THEN Throw(d, "TypeError")
         ELSE removeEach(removeChild(d, parentElement(d, elm.e), elm.e), Tail(elms))

remove(d, elms) == removeEach(d, toArray(elms))

append(d, parent, chld) ==
    IF parent # NULL THEN appendChild(d, parent, chld) ELSE Ok(d, NULL)

\* before, had it looked at ref alone
before_refOnly(d, elm, ref) ==
    IF ref # NULL /\ parentElement(d, ref) # NULL
    THEN insertBefore(d, parentElement(d, ref), elm, ref)
    ELSE Ok(d, NULL)

before(d, elm, ref) ==
    IF elm # NULL /\ ref # NULL /\ parentElement(d, ref) # NULL
    THEN insertBefore(d, parentElement(d, ref), elm, ref)
    ELSE Ok(d, NULL)

RECURSIVE applyStyleEach(_, _, _, _)
applyStyleEach(d, elm, styles, props) ==
    IF props = << >> THEN d
    ELSE LET value == styles[Head(props)] IN
         applyStyleEach(styleSet(d, elm, Head(props),
                                 IF Truthy(value) THEN ToStr(value) ELSE << >>),
                        elm, styles, Tail(props))

applyStyle(d, elm, styles) ==
    IF elm # NULL THEN applyStyleEach(d, elm, styles, each(styles)) ELSE d

RECURSIVE addOrRemoveEach(_, _, _, _)
addOrRemoveEach(d, elm, names, rem) ==
    IF names = << >> THEN Ok(d, NULL)
    ELSE IF ~Truthy(Head(names)) THEN addOrRemoveEach(d, elm, Tail(names), rem)
    ELSE LET r == classListChange(d, elm, Head(names), rem) IN
         IF r.threw # "" THEN r ELSE addOrRemoveEach(r.dom, elm, Tail(names), rem)

addOrRemoveClasses(d, elm, classes, rem) ==
    IF elm # NULL THEN addOrRemoveEach(d, elm, toArray(classes), rem) ELSE Ok(d, NULL)

\* addClass, had it added the first name only
addClass_firstOnly(d, elm, classes) ==
    addOrRemoveClasses(d, elm, Head(toArray(classes)), FALSE)

addClass(d, elm, classes) == addOrRemoveClasses(d, elm, classes, FALSE)

removeClass(d, elm, classes) == addOrRemoveClasses(d, elm, classes, TRUE)

\* html is the chain of elements the markup nests, outermost first, each
\* [tag, attrs]; ids names the container and the elements the parser creates.
\* The first child stays the child of the container.
RECURSIVE parseChain(_, _, _, _)
parseChain(d, parent, ids, html) ==
    IF html = << >> THEN d
    ELSE LET made == create(d, Head(ids), Head(html).tag, Head(html).attrs) IN
         IF made.threw # "" THEN made.dom
         ELSE LET put == appendChild(made.dom, parent, Head(ids)) IN
              IF put.threw # "" THEN put.dom
              ELSE parseChain(put.dom, Head(ids), Tail(ids), Tail(html))

domify(d, ids, html) ==
    LET div == create(d, Head(ids), "div", << >>) IN
    IF div.threw # "" THEN div
    ELSE LET parsed == parseChain(div.dom, Head(ids), Tail(ids), html) IN
         Ok(parsed, firstElementChild(parsed, Head(ids)))

----------------------------------------------------------------------------
(* The elements of the model. *)

Node(kind, k) == kind \o ToString(k)

\* what one fabrication creates: the wrapper, and per arrow the container
\* domify parses into, the button, its svg and its path
FabNodes(k) ==
    {Node("wrapper", k)} \cup
    {Node(kind, k) : kind \in {"div_p", "button_p", "svg_p", "path_p",
                               "div_n", "button_n", "svg_n", "path_n"}}

HostNodes == {"document", "root", "slider", "track", "box", "prev0", "next0", "loose"}

\* what the k-th helper call creates, when it creates anything
CallNodes(k) == {Node("created", k), Node("parsed", k)}

AllNodes ==
    HostNodes \cup UNION {FabNodes(k) : k \in 1..MaxFab}
              \cup UNION {CallNodes(k) : k \in 1..MaxCalls}

name == "arrows"

\* Splide.classes
classes ==
    [arrows |-> <<"splide__arrows">>, arrow |-> <<"splide__arrow">>,
     prev |-> <<"splide__arrow--prev">>, next |-> <<"splide__arrow--next">>]

XML_NAME_SPACE == <<"http://www.w3.org/2000/svg">>
PATH == <<"m15.5", "0.932-4.3", "4.38">>
SIZE == "40"

root == "root"

\* Components.Elements.slider
ElementsSlider(d) == IF d.tag["slider"] # "" THEN "slider" ELSE NULL

\* the markup of the page the slider lives in: whether it has a slider
\* element, where its track is, and where the arrows of the page are, if any
Page(hasSlider, track, markup) ==
    LET arrowKids == CASE markup = "root" -> <<"prev0", "next0">>
                       [] markup = "box" -> <<"box">>
                       [] OTHER -> << >>
        rootKids  == arrowKids
                     \o (IF hasSlider THEN <<"slider">> ELSE << >>)
                     \o (IF track = "root" THEN <<"track">> ELSE << >>)
        present   == {"document", "root", "loose"}
                     \cup Range(rootKids)
                     \cup (IF track = "none" THEN {} ELSE {"track"})
                     \cup (IF markup = "none" THEN {} ELSE {"prev0", "next0"})
    IN  [kids  |-> [n \in AllNodes |->
                      CASE n = "document" -> <<"root">>
                        [] n = "root" -> rootKids
                        [] n = "slider" /\ track = "slider" -> <<"track">>
                        [] n = "box" /\ markup = "box" -> <<"prev0", "next0">>
                        [] OTHER -> << >>],
         attrs |-> [n \in AllNodes |->
                      CASE n = "prev0" /\ markup # "none" ->
                               ("class" :> classes.arrow \o classes.prev)
                        [] n = "next0" /\ markup # "none" ->
                               ("class" :> classes.arrow \o classes.next)
                        [] n = "track" /\ track # "none" ->
                               ("class" :> <<"splide__track">>)
                        [] OTHER -> << >>],
         style |-> [n \in AllNodes |-> << >>],
         tag   |-> [n \in AllNodes |->
                      IF n \notin present THEN ""
                      ELSE IF n \in {"prev0", "next0"} THEN "button"
                      ELSE IF n = "document" THEN "html"
                      ELSE "div"]]

Pages ==
    {Page(hasSlider, track, markup) :
        hasSlider \in BOOLEAN, track \in {"none", "root", "slider"},
        markup \in {"none", "box"}}

\* the track sits in a slider only when there is one
WellFormed(d) == d.kids["slider"] # << >> => d.tag["slider"] # ""

\* an element is in the document
Attached(d, n) == n # "document" /\ Contains(d, "document", n)

----------------------------------------------------------------------------
(* components/arrows/index.js *)

\* createArrow: the markup of one arrow, and the elements parsing it creates
ArrowHtml(isPrev) ==
    << [tag |-> "button",
        attrs |-> ("class" :> JSStr(classes.arrow \o
                                    (IF isPrev THEN classes.prev ELSE classes.next)))],
       [tag |-> "svg",
        attrs |-> ("xmlns" :> JSStr(XML_NAME_SPACE))
                  @@ ("viewBox" :> JSStr(<<"0", "0", SIZE, SIZE>>))
                  @@ ("width" :> JSStr(<<SIZE>>)) @@ ("height" :> JSStr(<<SIZE>>))],
       [tag |-> "path", attrs |-> ("d" :> JSStr(PATH))] >>

createArrow(d, k, isPrev) ==
    LET side == IF isPrev THEN "_p" ELSE "_n" IN
    domify(d, <<Node("div" \o side, k), Node("button" \o side, k),
                Node("svg" \o side, k), Node("path" \o side, k)>>,
           ArrowHtml(isPrev))

\* appendArrows: the wrapper goes before the first child of the slider or of
\* the root; an exception ends it where it is thrown
appendArrows(d, k, p, n, arrows) ==
    LET wrapper == create(d, Node("wrapper", k), "div",
                          ("class" :> JSStr(classes.arrows)))
    IN  IF wrapper.threw # "" THEN wrapper
        ELSE LET d1 == append(wrapper.dom, wrapper.ret, p) IN
        IF d1.threw # "" THEN d1
        ELSE LET d2 == append(d1.dom, wrapper.ret, n) IN
        IF d2.threw # "" THEN d2
        ELSE LET slider == ElementsSlider(d2.dom)
                 parent == IF arrows = JSStr(<<"slider">>) /\ slider # NULL
                           THEN slider ELSE root
             IN  before(d2.dom, wrapper.ret, firstElementChild(d2.dom, parent))

\* mount, lines 82-86: both arrows are made, then wrapped and inserted
fabricate(d, k, arrows) ==
    LET a1 == createArrow(d, k, TRUE) IN
    IF a1.threw # "" THEN [dom |-> a1.dom, threw |-> a1.threw, prev |-> NULL, next |-> NULL]
    ELSE LET a2 == createArrow(a1.dom, k, FALSE) IN
    IF a2.threw # "" THEN [dom |-> a2.dom, threw |-> a2.threw, prev |-> a1.ret, next |-> NULL]
    ELSE LET r == appendArrows(a2.dom, k, a1.ret, a2.ret, arrows) IN
         [dom |-> r.dom, threw |-> r.threw, prev |-> a1.ret, next |-> a2.ret]

\* mount: "if arrows were not found in HTML, let's generate them"
ShouldFabricate(p, n, arrows) == (p = NULL \/ n = NULL) /\ Truthy(arrows)

\* a slip in the guard of bind: one arrow is enough
ShouldBind_either(p, n) == p # NULL \/ n # NULL

\* mount: if ( prev && next ) bind()
ShouldBind(p, n) == p # NULL /\ n # NULL

\* bind: the handlers handed to Splide.on
bind(p, n) ==
    {[event |-> "click", target |-> p, handler |-> "onClick(true)"],
     [event |-> "click", target |-> n, handler |-> "onClick(false)"],
     [event |-> "mounted move updated", target |-> NULL, handler |-> "updateDisabled"]}

\* onClick: the control handed to Splide.go
onClick(isPrev, perMove) ==
    IF Truthy(perMove)
    THEN <<(IF isPrev THEN "-" ELSE "+") \o ToStr(perMove)[1]>>
    ELSE IF isPrev THEN <<"<">> ELSE <<">">>

\* a slip in the comparison: a full page counts as enough
IsDisabled_offByOne(index, length, perPage) == index < 0 \/ ~(length >= perPage)

\* updateDisabled: whether an arrow is disabled
IsDisabled(index, length, perPage) == index < 0 \/ ~(length > perPage)

updateDisabled(d, p, n, prevIndex, nextIndex, length, perPage) ==
    IF p = NULL THEN Throw(d, "TypeError")
    ELSE LET d1 == SetDisabled(d, p, IsDisabled(prevIndex, length, perPage)) IN
         IF n = NULL THEN Throw(d1, "TypeError")
         ELSE Ok(SetDisabled(d1, n, IsDisabled(nextIndex, length, perPage)),
                 <<name \o ":updated", p, n, prevIndex, nextIndex>>)

\* a slip in destroy: the parent of the arrows is removed whoever made them
DestroyRemoves_always(c) == TRUE

\* destroy: if ( created ) remove( prev.parentElement )
DestroyRemoves(c) == c

destroy(d, p, n, c) ==
    LET d1 == removeAttribute(removeAttribute(d, p, JSStr(<<"disabled">>)),
                              n, JSStr(<<"disabled">>))
    IN  IF DestroyRemoves(c)
        THEN IF p = NULL THEN Throw(d1, "TypeError")
             ELSE remove(d1, JSElm(parentElement(d1, p)))
        ELSE Ok(d1, NULL)

----------------------------------------------------------------------------
(* The component in its host. *)

Init ==
    /\ dom \in {d \in Pages : WellFormed(d)}
    /\ prev = NULL
    /\ next = NULL
    /\ created = FALSE
    /\ thisArrows = JSUndefined
    /\ listeners = {}
    /\ phase = "created"
    /\ fab = 0
    /\ calls = 0
    /\ last = [op |-> "init"]

\* what the element registry can hold for an arrow of the page
Registry(d, n) == {NULL} \cup (IF d.tag[n] # "" THEN {n} ELSE {})

\* Arrows.mount, the registry holding regPrev and regNext and options.arrows
\* being arrows
Mount ==
    \E regPrev \in Registry(dom, "prev0"), regNext \in Registry(dom, "next0"),
       arrows \in {JSBool(FALSE), JSBool(TRUE), JSStr(<<"slider">>)} :
        LET make == ShouldFabricate(regPrev, regNext, arrows)
            res  == IF make THEN fabricate(dom, fab + 1, arrows)
                    ELSE [dom |-> dom, threw |-> "", prev |-> regPrev, next |-> regNext]
        IN  /\ phase # "mounted"
            /\ make => fab < MaxFab
            /\ dom' = res.dom
            /\ prev' = res.prev
            /\ next' = res.next
            /\ created' = (created \/ make)
            /\ fab' = IF make THEN fab + 1 ELSE fab
            /\ listeners' = IF res.threw = "" /\ ShouldBind(res.prev, res.next)
                            THEN listeners \cup bind(res.prev, res.next)
                            ELSE listeners
            /\ thisArrows' = IF res.threw = ""
                             THEN [prev |-> res.prev, next |-> res.next]
                             ELSE thisArrows
            /\ phase' = "mounted"
            /\ last' = [op |-> "mount", regPrev |-> regPrev, regNext |-> regNext,
                        arrows |-> arrows, made |-> make,
                        bound |-> (res.threw = "" /\ ShouldBind(res.prev, res.next)),
                        threw |-> res.threw]
            /\ UNCHANGED calls

\* Arrows.mounted
Mounted ==
    /\ phase = "mounted"
    /\ last' = [op |-> "mounted", emitted |-> <<name \o ":mounted", prev, next>>]
    /\ UNCHANGED <<dom, prev, next, created, thisArrows, listeners, phase, fab, calls>>

\* the values the host is observed with: Controller.prevIndex and nextIndex
\* (-1: no such slide), Splide.length, options.perPage, options.perMove
Indices == -1..MaxIndex
Lengths == {1, 3}
PerPages == {1, 2}
PerMoves == {0, 2}

\* the host emits 'mounted', 'move' or 'updated' and runs the handlers bound
\* to it; the controller and the options hold the values drawn
Event ==
    \E prevIndex \in Indices, nextIndex \in Indices,
       length \in Lengths, perPage \in PerPages :
        LET ran == \E h \in listeners : h.handler = "updateDisabled"
            res   == IF ran
                   THEN updateDisabled(dom, prev, next, prevIndex, nextIndex,
                                       length, perPage)
                   ELSE Ok(dom, << >>)
        IN  /\ phase = "mounted"
            /\ dom' = res.dom
            /\ last' = [op |-> "event", ran |-> ran,
                        prevIndex |-> prevIndex, nextIndex |-> nextIndex,
                        length |-> length, perPage |-> perPage,
                        threw |-> res.threw, emitted |-> res.ret]
            /\ UNCHANGED <<prev, next, created, thisArrows, listeners, phase, fab, calls>>

\* a click on an arrow that has a click handler; a disabled button gets none
Click ==
    \E h \in listeners, perMove \in PerMoves :
        /\ h.event = "click"
        /\ ~HasAttr(dom, h.target, "disabled")
        /\ last' = [op |-> "click", target |-> h.target, handler |-> h.handler,
                    perMove |-> perMove, threw |-> "",
                    go |-> onClick(h.handler = "onClick(true)", JSNum(perMove))]
        /\ UNCHANGED <<dom, prev, next, created, thisArrows, listeners, phase, fab, calls>>

\* the host's teardown: Arrows.destroy, then the host drops every handler
HostOff(ls) == {}

Destroy ==
    LET res == destroy(dom, prev, next, created) IN
    /\ dom' = res.dom
    /\ listeners' = HostOff(listeners)
    /\ phase' = "destroyed"
    /\ last' = [op |-> "destroy", threw |-> res.threw,
                again |-> (phase = "destroyed" /\ thisArrows # JSUndefined)]
    /\ UNCHANGED <<prev, next, created, thisArrows, fab, calls>>

Next == Mount \/ Mounted \/ Event \/ Click \/ Destroy

Spec == Init /\ [][Next]_vars

----------------------------------------------------------------------------
(* The helpers of utils/dom.js, called on their own. *)

\* the arguments the helpers are called with
Elms == {NULL, "box", "prev0", "loose"}
Values == {JSUndefined, JSNull, JSStr(<< >>), JSNum(0), JSBool(FALSE),
           JSStr(<<"x">>), JSNum(1), JSBool(TRUE)}
Selectors == {JSNull, JSStr(<<"splide__arrow--next">>), JSStr(<<"splide__arrow", "x">>)}
ClassArgs ==
    {JSStr(<<"a">>), JSStr(<<"b">>), JSStr(<<"a", "b">>),
     JSArr(<<JSStr(<<"a">>), JSStr(<<"b">>)>>), JSArr(<<JSStr(<< >>), JSStr(<<"a">>)>>)}
AttrObjects ==
    {<< >>} \cup {("id" :> v) : v \in Values}
            \cup {("id" :> JSStr(<<"x">>)) @@ ("data-y" :> v) : v \in {JSNum(0), JSStr(<<"z">>)}}
StyleObjects ==
    {("width" :> JSStr(<<"10px">>)), ("width" :> JSNum(0)) @@ ("height" :> JSStr(<<"1px">>))}
RemoveArgs ==
    {JSNull} \cup {JSElm(e) : e \in Elms \ {NULL}}
    \cup {JSArr(<<JSNull, JSElm("prev0")>>), JSArr(<<JSElm("prev0"), JSElm("next0")>>),
          JSArr(<<JSElm("prev0"), JSElm("loose"), JSElm("next0")>>)}
NameArgs == {JSStr(<<"id">>), JSArr(<<JSStr(<<"id">>), JSStr(<<"class">>)>>)}
Htmls == {<< >>, <<[tag |-> "span", attrs |-> << >>]>>}

InitDom ==
    /\ dom = Page(TRUE, "slider", "box")
    /\ prev = NULL
    /\ next = NULL
    /\ created = FALSE
    /\ thisArrows = JSUndefined
    /\ listeners = {}
    /\ phase = "created"
    /\ fab = 0
    /\ calls = 0
    /\ last = [op |-> "init"]

\* one call of a helper: res is what it yields
Called(res, rec) ==
    /\ calls < MaxCalls
    /\ calls' = calls + 1
    /\ dom' = res.dom
    /\ last' = rec @@ [threw |-> res.threw, ret |-> res.ret]
    /\ UNCHANGED <<prev, next, created, thisArrows, listeners, phase, fab>>

CallFind ==
    \E elm \in Elms \cup {"root"}, selector \in Selectors :
        Called(find(dom, elm, selector),
               [op |-> "find", elm |-> elm, selector |-> selector])

CallChild ==
    \E elm \in Elms, className \in Selectors \ {JSNull} :
        Called(child(dom, elm, className),
               [op |-> "child", elm |-> elm, className |-> className])

CallCreate ==
    \E attrs \in AttrObjects :
        Called(create(dom, Node("created", calls + 1), "div", attrs),
               [op |-> "create", elm |-> Node("created", calls + 1), tag |-> "div",
                attrs |-> attrs])

CallDomify ==
    \E html \in Htmls :
        Called(domify(dom, <<Node("created", calls + 1), Node("parsed", calls + 1)>>, html),
               [op |-> "domify", elm |-> Node("created", calls + 1), html |-> html])

CallRemove ==
    \E elms \in RemoveArgs :
        Called(remove(dom, elms),
               [op |-> "remove", elm |-> IF elms = JSNull THEN NULL ELSE "some",
                elms |-> elms])

CallAppend ==
    \E elm \in Elms, chld \in Elms :
        Called(append(dom, elm, chld), [op |-> "append", elm |-> elm, chld |-> chld])

CallBefore ==
    \E elm \in Elms, ref \in Elms :
        Called(before(dom, elm, ref), [op |-> "before", elm |-> elm, ref |-> ref])

CallApplyStyle ==
    \E elm \in Elms, styles \in StyleObjects :
        Called(Ok(applyStyle(dom, elm, styles), NULL),
               [op |-> "applyStyle", elm |-> elm, styles |-> styles])

CallAddClass ==
    \E elm \in Elms, cls \in ClassArgs :
        Called(addClass(dom, elm, cls), [op |-> "addClass", elm |-> elm, classes |-> cls])

CallRemoveClass ==
    \E elm \in Elms, cls \in ClassArgs :
        Called(removeClass(dom, elm, cls),
               [op |-> "removeClass", elm |-> elm, classes |-> cls])

CallHasClass ==
    \E elm \in Elms, className \in {JSStr(<<"a">>), JSStr(<<"splide__arrow">>)} :
        Called(Ok(dom, hasClass(dom, elm, className)),
               [op |-> "hasClass", elm |-> elm, className |-> className])

CallSetAttribute ==
    \E elm \in Elms, value \in {JSUndefined, JSNum(0), JSStr(<<"x">>)} :
        Called(Ok(setAttribute(dom, elm, "id", value), NULL),
               [op |-> "setAttribute", elm |-> elm, name |-> "id", value |-> value])

CallGetAttribute ==
    \E elm \in Elms, attr \in {"id", "class"} :
        Called(Ok(dom, getAttribute(dom, elm, attr)),
               [op |-> "getAttribute", elm |-> elm, name |-> attr])

CallRemoveAttribute ==
    \E elm \in Elms, names \in NameArgs :
        Called(Ok(removeAttribute(dom, elm, names), NULL),
               [op |-> "removeAttribute", elm |-> elm, names |-> names])

NextDom ==
    \/ CallFind \/ CallChild \/ CallCreate \/ CallDomify \/ CallRemove
    \/ CallAppend \/ CallBefore \/ CallApplyStyle \/ CallAddClass
    \/ CallRemoveClass \/ CallHasClass \/ CallSetAttribute
    \/ CallGetAttribute \/ CallRemoveAttribute

SpecDom == InitDom /\ [][NextDom]_vars

----------------------------------------------------------------------------
(* Properties of the arrows component. *)

Wrappers == {Node("wrapper", k) : k \in 1..MaxFab}
MadePrevs == {Node("button_p", k) : k \in 1..MaxFab}
MadeNexts == {Node("button_n", k) : k \in 1..MaxFab}

\* the registry held no arrow at the last mount and options.arrows was truthy
MountedWithoutMarkup ==
    /\ last.op = "mount"
    /\ last.regPrev = NULL
    /\ last.regNext = NULL
    /\ Truthy(last.arrows)

\* C1: after a mount that found no arrows in the registry, with options.arrows
\* truthy, whatever the parent holds, exactly one wrapper is in the document,
\* it holds exactly the two fabricated buttons and created is true; after a
\* destroy no wrapper is left in the document.
C1_OneWrapperInsertedThenRemoved ==
    /\ MountedWithoutMarkup =>
          /\ created
          /\ Cardinality({w \in Wrappers : Attached(dom, w)}) = 1
          /\ \A w \in Wrappers : Attached(dom, w) =>
                /\ dom.kids[w] = <<prev, next>>
                /\ prev \in MadePrevs
                /\ next \in MadeNexts
    /\ last.op = "destroy" =>
          /\ last.threw = ""
          /\ \A w \in Wrappers : ~Attached(dom, w)

\* C2: a mount that finds both arrows in the registry, created being unset,
\* creates nothing, leaves created unset and takes the two arrows as they are;
\* the destroy of such arrows completes, leaves every element where it is and
\* changes nothing but the disabled attribute of the two arrows, which it
\* removes.
C2_FoundArrowsStayInPlace ==
    [][ /\ (/\ last'.op = "mount"
            /\ last'.regPrev # NULL
            /\ last'.regNext # NULL
            /\ ~created)
           => /\ dom' = dom
              /\ ~created'
              /\ fab' = fab
              /\ prev' = last'.regPrev
              /\ next' = last'.regNext
        /\ (/\ last'.op = "destroy"
            /\ ~created
            /\ prev # NULL
            /\ next # NULL)
           => /\ last'.threw = ""
              /\ dom'.kids = dom.kids
              /\ Attached(dom', prev) = Attached(dom, prev)
              /\ Attached(dom', next) = Attached(dom, next)
              /\ ~HasAttr(dom', prev, "disabled")
              /\ ~HasAttr(dom', next, "disabled")
              /\ dom' = elmRemoveAttribute(elmRemoveAttribute(dom, prev, "disabled"),
                                           next, "disabled")
      ]_vars

\* the arrows of the page were mounted and destroyed, and are where they were
C2_Witness ==
    /\ last.op = "destroy"
    /\ last.threw = ""
    /\ ~created
    /\ prev = "prev0"
    /\ next = "next0"
    /\ dom.kids["box"] = <<"prev0", "next0">>
    /\ Attached(dom, "prev0")
    /\ Attached(dom, "next0")

C4_CreatedMeansFabricated ==
    /\ created =>
          /\ prev \in MadePrevs
          /\ next \in MadeNexts
          /\ parentElement(dom, prev) \in Wrappers
          /\ parentElement(dom, next) = parentElement(dom, prev)
    /\ \A n \in {"prev0", "next0"} : dom.tag[n] # "" => Attached(dom, n)

\* C5: a destroy that follows a completed destroy of a component that was
\* mounted completes without an exception and changes neither the document nor
\* the component.
C5_DestroyIdempotent ==
    [][ (/\ last.op = "destroy"
         /\ last.threw = ""
         /\ last'.op = "destroy"
         /\ last'.again) =>
            /\ last'.threw = ""
            /\ dom' = dom
            /\ UNCHANGED <<prev, next, created, thisArrows, listeners, phase>>
      ]_vars

----------------------------------------------------------------------------
(* Properties of the helpers. *)

\* a call whose element argument is null
NullCall(l) ==
    /\ l.op \in {"find", "child", "remove", "append", "before", "applyStyle", "addClass",
                 "removeClass", "hasClass", "setAttribute", "getAttribute",
                 "removeAttribute"}
    /\ l.elm = NULL \/ (l.op = "before" /\ l.ref = NULL)

Entries(elms) == {v.e : v \in {w \in Range(toArray(elms)) : Truthy(w)}}

\* C7: remove never throws; it takes every entry that has a parent out of its
\* parent and changes nothing else, null entries and entries without a parent
\* included.
C7_RemoveDetachesQuietly ==
    [][ last'.op = "remove" =>
            /\ last'.threw = ""
            /\ dom' = [dom EXCEPT !.kids =
                          [p \in DOMAIN dom.kids |->
                              SelectSeq(dom.kids[p],
                                        LAMBDA c : c \notin Entries(last'.elms))]]
      ]_vars

C9_CreateSkipsFalsy ==
    last.op = "create" =>
        /\ last.threw = ""
        /\ dom.tag[last.ret] = last.tag
        /\ DOMAIN dom.attrs[last.ret] = {k \in DOMAIN last.attrs : Truthy(last.attrs[k])}

\* C9, amended: create returns a new, detached element of the given tag whose
\* attributes are exactly the pairs of attrs, every value as a string: a falsy
\* value is set as 'undefined', 'null', '', '0' or 'false'.
C9_CreateSetsEveryPair ==
    last.op = "create" =>
        /\ last.threw = ""
        /\ last.ret = last.elm
        /\ dom.tag[last.ret] = last.tag
        /\ dom.kids[last.ret] = << >>
        /\ parentElement(dom, last.ret) = NULL
        /\ DOMAIN dom.attrs[last.ret] = DOMAIN last.attrs
        /\ \A k \in DOMAIN last.attrs :
              LET v == last.attrs[k]
                  shown == dom.attrs[last.ret][k]
              IN  /\ v = JSUndefined => shown = <<"undefined">>
                  /\ v = JSNull => shown = <<"null">>
                  /\ v = JSStr(<< >>) => shown = << >>
                  /\ v = JSNum(0) => shown = <<"0">>
                  /\ v = JSBool(FALSE) => shown = <<"false">>
                  /\ v = JSStr(<<"x">>) => shown = <<"x">>
                  /\ v = JSStr(<<"z">>) => shown = <<"z">>
                  /\ v = JSNum(1) => shown = <<"1">>
                  /\ v = JSBool(TRUE) => shown = <<"true">>

\* create( 'div', { id: 'x', 'data-y': 0 } ): both attributes are set
C9_Witness ==
    /\ last.op = "create"
    /\ last.attrs = ("id" :> JSStr(<<"x">>)) @@ ("data-y" :> JSNum(0))
    /\ dom.attrs[last.ret] = ("id" :> <<"x">>) @@ ("data-y" :> <<"0">>)

=============================================================================
